---- MODULE Spec2Model ----
(***************************************************************************)
(* Galaxy generation of keithqu/spacegame (game-engine/src/galaxy.cpp).    *)
(*                                                                         *)
(* Positions are points of the integer grid (one unit = one light year).   *)
(* A distance is carried as its square (dx*dx + dy*dy), so every           *)
(* comparison the code makes between two distances, or between a distance  *)
(* and a threshold, is made exactly on integers after squaring both sides. *)
(* The seeded random source is a stream of doubles in [0,1); each draw is  *)
(* a nondeterministic choice among the stream values that land on the      *)
(* grid.                                                                   *)
(***************************************************************************)
EXTENDS Integers, Sequences, FiniteSets, TLC

VARIABLES
    cfg,            \* GalaxyGenerator::config
    pc,             \* position of generateGalaxy in its pipeline
    voronoiSites,   \* GalaxyGenerator::voronoiSites (member)
    sites,          \* local `sites` of generateVoronoiSites
    systems,        \* local `systems` of generateGalaxy
    warpLanes,      \* local `warpLanes` of generateGalaxy
    connections,    \* the id -> ids side map of the running stage
    anomalies,      \* local `anomalies` of generateAnomalies
    idx,            \* loop index of the running stage
    counters,       \* redundantConnectionsAdded, bridgesAdded, lane marks
    rd,             \* values std::random_device will hand out, and how many were taken
    run,            \* 0: a single run; 1: first of two runs; 2: second run, same seed
    stream,         \* draws of the seeded source made by run 1, in order
    prev            \* the galaxy returned by run 1

vars == <<cfg, pc, voronoiSites, sites, systems, warpLanes, connections,
          anomalies, idx, counters, rd, run, stream, prev>>

----------------------------------------------------------------------------
(* Bounds of the model *)

MaxPlaced == 4       \* systems and anomalies asked for, together
MaxAnomalies == 2

(* Program constants *)

SiteMinDistanceX2 == 5          \* minDistance = 2.5, doubled
SiteAttemptCap == 500
SystemAttemptCap == 100
AnomalyAttemptCap == 100
SystemMinDistance == 2
AnomalySystemMin == 3
AnomalyAnomalyMin == 2
CoreLimit == 300
MaxNeighbors == 6
RedundantCap == 40
LaneSpeed == 5

----------------------------------------------------------------------------
(* Small helpers *)

Min2(a, b) == IF a <= b THEN a ELSE b
Max2(a, b) == IF a >= b THEN a ELSE b
Abs(a) == IF a < 0 THEN -a ELSE a
Range(s) == {s[i] : i \in DOMAIN s}
Contains(s, e) == \E i \in DOMAIN s : s[i] = e

\* std::to_string(n) appended to a prefix, for the ids the generator makes
SystemIdTable == <<"system-1", "system-2", "system-3", "system-4",
                   "system-5", "system-6", "system-7", "system-8">>
AnomalyIdTable == <<"anomaly-1", "anomaly-2", "anomaly-3", "anomaly-4",
                    "anomaly-5", "anomaly-6">>
SystemIdOf(n) == SystemIdTable[n]
AnomalyIdOf(n) == AnomalyIdTable[n]

----------------------------------------------------------------------------
(* Geometry *)

\* squared calculateDistance
calculateDistance(a, b) ==
    (a[1] - b[1]) * (a[1] - b[1]) + (a[2] - b[2]) * (a[2] - b[2])

Pos(s) == <<s.x, s.y>>

\* cos and sin of q quarter turns
Cos4(q) == CASE q = 0 -> 1 [] q = 1 -> 0 [] q = 2 -> -1 [] q = 3 -> 0
Sin4(q) == CASE q = 0 -> 0 [] q = 1 -> 1 [] q = 2 -> 0 [] q = 3 -> -1

\* the angles random.range(0, 2*pi) lands on, in quarter turns
AngleSteps == {0, 2}
\* the values k for which random.next() = (k/radius)^2, so sqrt(next()) * radius = k
RadialSteps(radius) == {k \in {0, 2, 5, 9} : k < radius}

\* a < b for distances given by their squares; threshold t given as tn/td
DistLess(d2, tn, td) == d2 * td * td < tn * tn
DistLeq(d2, tn, td) == d2 * td * td <= tn * tn

----------------------------------------------------------------------------
(* Configuration *)

\* FixedSystem {id, name, x, y, type, hasFixedPosition, targetDistance, distanceTolerance}
Exact(id, x, y, type) ==
    [id |-> id, x |-> x, y |-> y, type |-> type, hasFixedPosition |-> TRUE,
     targetDistance |-> 0, distanceTolerance |-> 0]
Polar(id, type, target, tol) ==
    [id |-> id, x |-> 0, y |-> 0, type |-> type, hasFixedPosition |-> FALSE,
     targetDistance |-> target, distanceTolerance |-> tol]

\* the fixed systems of the servers' configurations, brought to the scale of
\* the model: the origin, a real star at exact coordinates, and a fictional
\* rim system placed by distance and tolerance
Sol == Exact("sol", 0, 0, "origin")
Bellatrix == Exact("bellatrix", 8, 0, "rim")
Aspida == Polar("aspida", "rim", 11, 1)

FixedChoices == {<< >>, <<Sol>>, <<Sol, Bellatrix, Aspida>>}

Configs ==
    {c \in [useVoronoiConnectivity : BOOLEAN,
            radius : {10},
            starSystemCount : 0..MaxPlaced,
            anomalyCount : 0..MaxAnomalies,
            fixedSystems : FixedChoices,
            minConnections : {1},
            maxConnections : {2},
            maxDistance : {3},
            decayTenths : {3}] :
        c.starSystemCount + c.anomalyCount <= MaxPlaced}

----------------------------------------------------------------------------
(* The seeded random source.  Run 1 records what it draws; run 2, made with *)
(* the same seed, is handed the same values in the same order.              *)

Replay(v) == run = 2 => (Len(stream) > 0 /\ Head(stream) = v)
Drawn(v) == CASE run = 1 -> Append(stream, v)
              [] run = 2 -> Tail(stream)
              [] OTHER -> stream

\* std::random_device: the next value of the entropy the environment supplies
DeviceNext == rd.tape[(rd.taken % Len(rd.tape)) + 1]
DeviceTaken == [rd EXCEPT !.taken = (rd.taken + 1) % Len(rd.tape)]

\* generateRandomPositionInCircle: angle = range(0, 2 pi), radius = sqrt(next()) * R
generateRandomPositionInCircle(q, k) == <<k * Cos4(q), k * Sin4(q)>>
PositionDraws == AngleSteps \X RadialSteps(cfg.radius)
DiskPoints == {generateRandomPositionInCircle(d[1], d[2]) : d \in PositionDraws}

\* do { sample; attempts++ } while (invalid && attempts < cap): the values
\* `attempts` can have when the loop ends on the sample pos, of which the
\* first and the last are kept.  Attempt cap needs invalid samples before it.
LoopEnds(valid(_), cap, pos) ==
    {a \in {1, cap} :
        /\ (a < cap => valid(pos))
        /\ (a > 1 => \E p \in DiskPoints : ~valid(p))}

----------------------------------------------------------------------------
(* Sorting: the sequence of the elements of S in the strict total order Less *)

SortSet(S, Less(_, _)) ==
    [i \in 1..Cardinality(S) |->
        CHOOSE e \in S : Cardinality({o \in S : Less(o, e)}) = i - 1]

\* operator< of std::pair<double, size_t>
PairLess(a, b) == a[1] < b[1] \/ (a[1] = b[1] /\ a[2] < b[2])

----------------------------------------------------------------------------
(* Voronoi site placement *)

isValidVoronoiPosition(pos, minDistanceX2) ==
    \A n \in DOMAIN voronoiSites :
        ~DistLess(calculateDistance(pos, Pos(voronoiSites[n])), minDistanceX2, 2)

NewSite(pos) ==
    [x |-> pos[1], y |-> pos[2], neighbors |-> << >>, systemId |-> "", hasSystem |-> FALSE]

\* one slot of the loop of generateVoronoiSites
PlaceSite ==
    /\ pc = "sites"
    /\ idx < cfg.starSystemCount
    /\ \E d \in PositionDraws :
         LET pos == generateRandomPositionInCircle(d[1], d[2])
             ok(p) == isValidVoronoiPosition(p, SiteMinDistanceX2)
         IN \E attempts \in LoopEnds(ok, SiteAttemptCap, pos) :
              /\ Replay(<<d, attempts>>)
              /\ stream' = Drawn(<<d, attempts>>)
              /\ sites' = IF attempts < SiteAttemptCap
                          THEN Append(sites, NewSite(pos)) ELSE sites
    /\ idx' = idx + 1
    /\ UNCHANGED <<cfg, pc, voronoiSites, systems, warpLanes, connections,
                   anomalies, counters, rd, run, prev>>

\* the neighbour lists after the first loop of computeVoronoiNeighbors
NearestNeighbors(ss, i) ==
    LET distances == {<<calculateDistance(Pos(ss[i]), Pos(ss[j])), j>> :
                         j \in DOMAIN ss \ {i}}
        sorted == SortSet(distances, PairLess)
        maxConnections == Min2(MaxNeighbors, Len(sorted))
        kept == SelectSeq(SubSeq(sorted, 1, maxConnections),
                          LAMBDA e : DistLeq(e[1], 2 * cfg.radius, 1))
    IN [k \in DOMAIN kept |-> kept[k][2]]

\* a variant that leaves the lists as the first loop made them
NearestOnly(ss, i, k) == ss

\* the second loop: site i pushes itself onto each neighbour that lacks it
RECURSIVE SymmetrizeFrom(_, _, _)
SymmetrizeFrom(ss, i, k) ==
    IF i > Len(ss) THEN ss
    ELSE IF k > Len(ss[i].neighbors) THEN SymmetrizeFrom(ss, i + 1, 1)
    ELSE LET n == ss[i].neighbors[k]
         IN IF Contains(ss[n].neighbors, i)
            THEN SymmetrizeFrom(ss, i, k + 1)
            ELSE SymmetrizeFrom([ss EXCEPT ![n].neighbors = Append(@, i)], i, k + 1)

computeVoronoiNeighbors(ss) ==
    SymmetrizeFrom([i \in DOMAIN ss |-> [ss[i] EXCEPT !.neighbors = NearestNeighbors(ss, i)]],
                   1, 1)

\* voronoiSites = generateVoronoiSites(...); computeVoronoiNeighbors();
ComputeNeighbors ==
    /\ pc = "sites"
    /\ idx = cfg.starSystemCount
    /\ voronoiSites' = computeVoronoiNeighbors(sites)
    /\ pc' = "fixed"
    /\ idx' = 0
    /\ UNCHANGED <<cfg, sites, systems, warpLanes, connections, anomalies,
                   counters, rd, run, stream, prev>>

----------------------------------------------------------------------------
(* System assignment *)

PredefinedPlanets == [sol |-> 8]      \* SystemConfigManager::predefinedSystems
\* the values random.intRange(4, 10) / intRange(2, 12) is taken to land on
SeededPlanetSteps == {4}

\* distance = random.range(target - tol, target + tol): min + next() * (max - min)
PolarSteps(f) ==
    IF f.distanceTolerance = 0 THEN {0} ELSE 0..(2 * f.distanceTolerance - 1)
FixedDraws(f) ==
    IF f.hasFixedPosition THEN {<<0, 0>>} ELSE PolarSteps(f) \X AngleSteps
\* a variant that starts the range at the target distance plus the tolerance
FixedPositionBeyond(f, d) ==
    IF f.hasFixedPosition THEN <<f.x, f.y>>
    ELSE LET distance == (f.targetDistance + f.distanceTolerance) + d[1] + 1
         IN <<distance * Cos4(d[2]), distance * Sin4(d[2])>>

FixedPosition(f, d) ==
    IF f.hasFixedPosition THEN <<f.x, f.y>>
    ELSE LET distance == (f.targetDistance - f.distanceTolerance) + d[1]
         IN <<distance * Cos4(d[2]), distance * Sin4(d[2])>>

determineSystemType(pos) ==
    IF DistLeq(calculateDistance(pos, <<0, 0>>), CoreLimit, 1) THEN "core" ELSE "rim"

FixedStarSystem(f, pos, planets) ==
    [id |-> f.id, x |-> pos[1], y |-> pos[2], type |-> f.type, isFixed |-> TRUE,
     explored |-> (f.type = "origin"), connections |-> << >>,
     planetCount |-> IF f.id \in DOMAIN PredefinedPlanets
                     THEN PredefinedPlanets[f.id] ELSE planets]

GeneratedStarSystem(n, pos, planets) ==
    [id |-> SystemIdOf(n), x |-> pos[1], y |-> pos[2], type |-> determineSystemType(pos),
     isFixed |-> FALSE, explored |-> FALSE, connections |-> << >>,
     planetCount |-> planets]

\* the scan for the closest site without a system; closestSite starts at the
\* first site and only a strictly smaller distance replaces it
ClosestSite(pos) ==
    LET free == {i \in DOMAIN voronoiSites : ~voronoiSites[i].hasSystem}
        d(i) == calculateDistance(pos, Pos(voronoiSites[i]))
    IN IF free = {} THEN 1
       ELSE CHOOSE i \in free :
              \A j \in free : d(i) < d(j) \/ (d(i) = d(j) /\ i <= j)

\* one fixed system of the first loop of generateSystemsFromVoronoi.  With no
\* site at all, voronoiSites[closestSite] is a write past the end of an empty
\* vector: the run either dies there or goes on with the vector as it was.
AssignFixedToSite ==
    /\ pc = "fixed"
    /\ cfg.useVoronoiConnectivity
    /\ idx < Len(cfg.fixedSystems)
    /\ LET f == cfg.fixedSystems[idx + 1]
       IN \E d \in FixedDraws(f), planets \in SeededPlanetSteps :
            LET pos == FixedPosition(f, d)
                closestSite == ClosestSite(pos)
            IN /\ Replay(<<d, planets>>)
               /\ stream' = Drawn(<<d, planets>>)
               /\ IF voronoiSites = << >>
                  THEN /\ UNCHANGED voronoiSites
                       /\ \/ /\ pc' = "crashed"
                             /\ UNCHANGED systems
                          \/ /\ pc' = pc
                             /\ systems' = Append(systems, FixedStarSystem(f, pos, planets))
                  ELSE /\ voronoiSites' =
                            [voronoiSites EXCEPT ![closestSite].hasSystem = TRUE,
                                                 ![closestSite].systemId = f.id]
                       /\ systems' = Append(systems, FixedStarSystem(f, pos, planets))
                       /\ pc' = pc
    /\ idx' = idx + 1
    /\ UNCHANGED <<cfg, sites, warpLanes, connections, anomalies, counters,
                   rd, run, prev>>

FixedAssigned ==
    /\ pc = "fixed"
    /\ cfg.useVoronoiConnectivity
    /\ idx = Len(cfg.fixedSystems)
    /\ pc' = "generated"
    /\ idx' = 0
    /\ UNCHANGED <<cfg, voronoiSites, sites, systems, warpLanes, connections,
                   anomalies, counters, rd, run, stream, prev>>

\* sites the second loop has still to visit that carry no system
FreeSitesAfter(i) == {n \in DOMAIN voronoiSites : n > i /\ ~voronoiSites[n].hasSystem}
\* a variant that numbers a generated system by the place it takes in the vector
PlacedCount == Len(systems)

GeneratedCount == Cardinality({n \in DOMAIN systems : ~systems[n].isFixed})

\* the second loop of generateSystemsFromVoronoi, up to and including the next
\* site it fills; the planet count comes from generateRandomSystem, which
\* seeds its own engine from std::random_device
GenerateAtSite ==
    /\ pc = "generated"
    /\ Len(systems) < cfg.starSystemCount
    /\ FreeSitesAfter(idx) # {}
    /\ LET i == CHOOSE n \in FreeSitesAfter(idx) : \A m \in FreeSitesAfter(idx) : n <= m
           systemIndex == GeneratedCount + 1
       IN /\ voronoiSites' = [voronoiSites EXCEPT ![i].hasSystem = TRUE,
                                                  ![i].systemId = SystemIdOf(systemIndex)]
          /\ systems' = Append(systems,
                               GeneratedStarSystem(systemIndex, Pos(voronoiSites[i]), DeviceNext))
          /\ idx' = i
    /\ rd' = DeviceTaken
    /\ UNCHANGED <<cfg, pc, sites, warpLanes, connections, anomalies, counters,
                   run, stream, prev>>

----------------------------------------------------------------------------
(* Lanes.  A graph value g holds what createWarpLane reads and writes:      *)
(* g.systems, g.warpLanes and g.connections (the id -> ids side map).       *)

Graph(ss, lanes, conns) == [systems |-> ss, warpLanes |-> lanes, connections |-> conns]

\* connections[id] = {} for every system
EmptyConnections(ss) == [id \in {ss[n].id : n \in DOMAIN ss} |-> << >>]

\* a variant that counts the whole turns only: floor(distance / 5)
WholeTurns(d2) ==
    CHOOSE t \in 0..(d2 + 1) :
        /\ LaneSpeed * LaneSpeed * t * t <= d2
        /\ LaneSpeed * LaneSpeed * (t + 1) * (t + 1) > d2

\* static_cast<int>(std::ceil(distance / 5.0)) for a distance given by its square
TravelTime(d2) ==
    CHOOSE t \in 0..(d2 + 1) :
        /\ LaneSpeed * LaneSpeed * t * t >= d2
        /\ \A u \in 0..(d2 + 1) : LaneSpeed * LaneSpeed * u * u >= d2 => t <= u

NewLane(s1, s2, distance) ==
    [id |-> <<s1.id, s2.id>>, from |-> s1.id, to |-> s2.id, distance |-> distance,
     travelTime |-> TravelTime(distance), discovered |-> (s1.explored /\ s2.explored)]

\* a variant that puts the new lane in front of the others
PrependLane(g, a, b, distance) ==
    LET s1 == g.systems[a]
        s2 == g.systems[b]
        c1 == [g.connections EXCEPT ![s1.id] = Append(@, s2.id)]
        c2 == [c1 EXCEPT ![s2.id] = Append(@, s1.id)]
    IN Graph(g.systems, <<NewLane(s1, s2, distance)>> \o g.warpLanes, c2)

\* the updates createWarpLane makes once the pair is known to be new
AddLane(g, a, b, distance) ==
    LET s1 == g.systems[a]
        s2 == g.systems[b]
        c1 == [g.connections EXCEPT ![s1.id] = Append(@, s2.id)]
        c2 == [c1 EXCEPT ![s2.id] = Append(@, s1.id)]
        ss1 == [g.systems EXCEPT ![a].connections = Append(@, s2.id)]
        ss2 == [ss1 EXCEPT ![b].connections = Append(@, s1.id)]
    IN Graph(ss2, Append(g.warpLanes, NewLane(s1, s2, distance)), c2)

\* a variant without the duplicate check
AlwaysAddLane(g, a, b, distance) == AddLane(g, a, b, distance)

createWarpLane(g, a, b, distance) ==
    IF Contains(g.connections[g.systems[a].id], g.systems[b].id)
    THEN g
    ELSE AddLane(g, a, b, distance)

SystemDistance(ss, a, b) == calculateDistance(Pos(ss[a]), Pos(ss[b]))

\* a variant that does not skip the system itself
NearestAny(ss, a) == a

\* a variant that keeps the other system with the largest distance
FarthestOther(ss, a) ==
    LET others == {b \in DOMAIN ss : ss[b].id # ss[a].id}
    IN IF others = {} THEN 0
       ELSE CHOOSE b \in others :
              \A c \in others :
                 \/ SystemDistance(ss, a, b) > SystemDistance(ss, a, c)
                 \/ (SystemDistance(ss, a, b) = SystemDistance(ss, a, c) /\ b <= c)

\* the nearest other system, 0 when there is none: the first in vector order
\* among the closest, since only a strictly smaller distance replaces it
NearestOther(ss, a) ==
    LET others == {b \in DOMAIN ss : ss[b].id # ss[a].id}
    IN IF others = {} THEN 0
       ELSE CHOOSE b \in others :
              \A c \in others :
                 \/ SystemDistance(ss, a, b) < SystemDistance(ss, a, c)
                 \/ (SystemDistance(ss, a, b) = SystemDistance(ss, a, c) /\ b <= c)

RECURSIVE MinimumConnectivityFrom(_, _)

\* a variant that returns after the first system it has connected
FixFirstIsolated(g, a) ==
    IF a > Len(g.systems) THEN g
    ELSE LET nearest == NearestOther(g.systems, a)
         IN IF /\ g.connections[g.systems[a].id] = << >>
               /\ nearest # 0
               /\ DistLeq(SystemDistance(g.systems, a, nearest), 3 * cfg.radius, 10)
            THEN createWarpLane(g, a, nearest, SystemDistance(g.systems, a, nearest))
            ELSE MinimumConnectivityFrom(g, a + 1)

\* the loop of ensureMinimumConnectivity over the systems, from the a-th on
MinimumConnectivityFrom(g, a) ==
    IF a > Len(g.systems) THEN g
    ELSE LET nearest == NearestOther(g.systems, a)
         IN IF /\ g.connections[g.systems[a].id] = << >>
               /\ nearest # 0
               /\ DistLeq(SystemDistance(g.systems, a, nearest), 3 * cfg.radius, 10)
            THEN MinimumConnectivityFrom(
                    createWarpLane(g, a, nearest, SystemDistance(g.systems, a, nearest)),
                    a + 1)
            ELSE MinimumConnectivityFrom(g, a + 1)

ensureMinimumConnectivity(g) == MinimumConnectivityFrom(g, 1)

----------------------------------------------------------------------------
(* Voronoi lane builder *)

\* getDistanceMultiplier, times 10
DistanceMultiplierX10(type) ==
    CASE type = "origin" -> 25 [] type = "core" -> 20 [] OTHER -> 4

\* a variant that takes the smaller of the two multipliers
StricterTier(s1, s2, baseX20) ==
    baseX20 * Min2(DistanceMultiplierX10(s1.type), DistanceMultiplierX10(s2.type))

\* calculateTieredDistance, times 200, for a base distance given times 20
calculateTieredDistance(s1, s2, baseX20) ==
    baseX20 * Max2(DistanceMultiplierX10(s1.type), DistanceMultiplierX10(s2.type))

\* max(maxDistance * 1.5, radius * 0.25), times 20
BaseMaxDistanceX20 == Max2(30 * cfg.maxDistance, 5 * cfg.radius)

\* the system whose id is the site's systemId: the last such system in the
\* vector, 0 when there is none
SystemOfSite(ss, site) ==
    LET hits == {n \in DOMAIN ss : ss[n].id = site.systemId}
    IN IF hits = {} THEN 0 ELSE CHOOSE n \in hits : \A m \in hits : m <= n

RECURSIVE VoronoiLanesFrom(_, _, _)
VoronoiLanesFrom(g, i, k) ==
    IF i > Len(voronoiSites) THEN g
    ELSE IF ~voronoiSites[i].hasSystem \/ k > Len(voronoiSites[i].neighbors)
         THEN VoronoiLanesFrom(g, i + 1, 1)
    ELSE LET neighborIdx == voronoiSites[i].neighbors[k]
             system1 == SystemOfSite(g.systems, voronoiSites[i])
             system2 == SystemOfSite(g.systems, voronoiSites[neighborIdx])
         IN IF /\ voronoiSites[neighborIdx].hasSystem
               /\ i < neighborIdx
               /\ system1 # 0
               /\ system2 # 0
               /\ DistLeq(SystemDistance(g.systems, system1, system2),
                          calculateTieredDistance(g.systems[system1], g.systems[system2],
                                                  BaseMaxDistanceX20),
                          200)
            THEN VoronoiLanesFrom(
                    createWarpLane(g, system1, system2,
                                   SystemDistance(g.systems, system1, system2)),
                    i, k + 1)
            ELSE VoronoiLanesFrom(g, i, k + 1)

generateVoronoiWarpLanes(ss) ==
    ensureMinimumConnectivity(VoronoiLanesFrom(Graph(ss, << >>, EmptyConnections(ss)), 1, 1))

----------------------------------------------------------------------------
(* ensureNetworkConnectivity: union-find over system indices *)

RECURSIVE Root(_, _)
Root(parent, x) == IF parent[x] = x THEN x ELSE Root(parent, parent[x])

\* find(x): every node on the path from x ends up pointing at the root
RECURSIVE find(_, _)
find(parent, x) ==
    IF parent[x] = x THEN parent
    ELSE [find(parent, parent[x]) EXCEPT ![x] = Root(parent, x)]

\* a variant that reports a join even when both were in one set already
uniteAlways(uf, x, y) ==
    LET p == find(find(uf.parent, x), y)
        px == Root(p, x)
        py == Root(p, y)
    IN IF px = py THEN [parent |-> p, rank |-> uf.rank, joined |-> TRUE]
       ELSE [parent |-> [p EXCEPT ![py] = px], rank |-> uf.rank, joined |-> TRUE]

\* unite(x, y): the union-find after the call, and whether it joined two sets
unite(uf, x, y) ==
    LET p == find(find(uf.parent, x), y)
        px == Root(p, x)
        py == Root(p, y)
    IN IF px = py THEN [parent |-> p, rank |-> uf.rank, joined |-> FALSE]
       ELSE IF uf.rank[px] < uf.rank[py]
            THEN [parent |-> [p EXCEPT ![px] = py], rank |-> uf.rank, joined |-> TRUE]
       ELSE IF uf.rank[px] > uf.rank[py]
            THEN [parent |-> [p EXCEPT ![py] = px], rank |-> uf.rank, joined |-> TRUE]
       ELSE [parent |-> [p EXCEPT ![py] = px],
             rank |-> [uf.rank EXCEPT ![px] = @ + 1], joined |-> TRUE]

\* systemToIndex[id]: the last system carrying the id, 0 when none does
SystemToIndex(ss, id) ==
    LET hits == {n \in DOMAIN ss : ss[n].id = id}
    IN IF hits = {} THEN 0 ELSE CHOOSE n \in hits : \A m \in hits : m <= n

RECURSIVE MarkLanes(_, _, _, _)
MarkLanes(uf, ss, lanes, k) ==
    IF k > Len(lanes) THEN uf
    ELSE LET it1 == SystemToIndex(ss, lanes[k].from)
             it2 == SystemToIndex(ss, lanes[k].to)
         IN IF it1 # 0 /\ it2 # 0
            THEN MarkLanes(unite(uf, it1, it2), ss, lanes, k + 1)
            ELSE MarkLanes(uf, ss, lanes, k + 1)

\* a variant that orders the candidates by descending distance
EdgeGreater(e, f) ==
    \/ e[1] > f[1]
    \/ (e[1] = f[1] /\ e[2] < f[2])
    \/ (e[1] = f[1] /\ e[2] = f[2] /\ e[3] < f[3])

\* operator< of std::pair<double, std::pair<size_t, size_t>>
EdgeLess(e, f) ==
    \/ e[1] < f[1]
    \/ (e[1] = f[1] /\ e[2] < f[2])
    \/ (e[1] = f[1] /\ e[2] = f[2] /\ e[3] < f[3])

\* a variant that considers only pairs within connectivity.maxDistance
NearBridgeEdges(uf, ss) ==
    SortSet({<<SystemDistance(ss, e[1], e[2]), e[1], e[2]>> :
                e \in {f \in (DOMAIN ss) \X (DOMAIN ss) :
                          /\ f[1] < f[2]
                          /\ Root(uf.parent, f[1]) # Root(uf.parent, f[2])
                          /\ DistLeq(SystemDistance(ss, f[1], f[2]), cfg.maxDistance, 1)}},
            EdgeLess)

\* the sorted candidate bridges: pairs i < j whose roots differ
BridgeEdges(uf, ss) ==
    SortSet({<<SystemDistance(ss, e[1], e[2]), e[1], e[2]>> :
                e \in {f \in (DOMAIN ss) \X (DOMAIN ss) :
                          f[1] < f[2] /\ Root(uf.parent, f[1]) # Root(uf.parent, f[2])}},
            EdgeLess)

\* the loop over the sorted bridges; r holds the graph, the union-find and bridgesAdded
RECURSIVE AddBridges(_, _, _)
AddBridges(r, edges, k) ==
    IF k > Len(edges) THEN r
    ELSE LET u == unite(r.uf, edges[k][2], edges[k][3])
         IN IF u.joined
            THEN AddBridges([g |-> createWarpLane(r.g, edges[k][2], edges[k][3], edges[k][1]),
                             uf |-> u,
                             bridgesAdded |-> r.bridgesAdded + 1],
                            edges, k + 1)
            ELSE AddBridges([r EXCEPT !.uf = u], edges, k + 1)

NetworkConnectivity(g) ==
    LET n == Len(g.systems)
        uf0 == [parent |-> [x \in 1..n |-> x], rank |-> [x \in 1..n |-> 0]]
        marked == MarkLanes(uf0, g.systems, g.warpLanes, 1)
    IN IF n < 2 THEN [g |-> g, uf |-> uf0, bridgesAdded |-> 0]
       ELSE AddBridges([g |-> g, uf |-> marked, bridgesAdded |-> 0],
                       BridgeEdges(marked, g.systems), 1)

ensureNetworkConnectivity(g) == NetworkConnectivity(g).g

----------------------------------------------------------------------------
(* addRedundantConnections *)

Degree(g, a) == Len(g.connections[g.systems[a].id])

\* sum of the coordinates of all systems
RECURSIVE SumPos(_, _)
SumPos(ss, n) ==
    IF n = 0 THEN <<0, 0>>
    ELSE LET r == SumPos(ss, n - 1) IN <<r[1] + ss[n].x, r[2] + ss[n].y>>

\* distanceFromCenter > radius * 0.6, the centre being the mean position
FarFromCenter(ss, a) ==
    LET n == Len(ss)
        c == SumPos(ss, n)
        dx == n * ss[a].x - c[1]
        dy == n * ss[a].y - c[2]
    IN 100 * (dx * dx + dy * dy) > 36 * cfg.radius * cfg.radius * n * n

isVulnerable(g, a) ==
    Degree(g, a) <= 2 \/ (FarFromCenter(g.systems, a) /\ Degree(g, a) < 4)

\* connectionScore = distance / (1.0 + targetConnections * 0.2), compared exactly;
\* equal scores fall back on the order of the systems in the vector
ScoreLess(g, v, a, b) ==
    LET da == SystemDistance(g.systems, v, a)
        db == SystemDistance(g.systems, v, b)
        ta == 5 + Degree(g, a)
        tb == 5 + Degree(g, b)
    IN da * tb * tb < db * ta * ta \/ (da * tb * tb = db * ta * ta /\ a < b)

\* a variant that ranks every other system, connected to v or not
AllTargets(g, v) ==
    LET targets == {a \in DOMAIN g.systems : a # v}
        less(a, b) == ScoreLess(g, v, a, b)
    IN SortSet(targets, less)

\* the sorted potentialConnections of the vulnerable system v
PotentialConnections(g, v) ==
    LET targets == {a \in DOMAIN g.systems :
                       a # v /\ ~Contains(g.connections[g.systems[v].id], g.systems[a].id)}
        less(a, b) == ScoreLess(g, v, a, b)
    IN SortSet(targets, less)

\* a variant that allows one addition per system
OnePerSystem(ss) == Min2(Len(ss), RedundantCap)

maxRedundantConnections(ss) == Min2(Len(ss) \div 4, RedundantCap)

\* the inner loop: up to connectionsToAdd of the best-ranked targets of v
RECURSIVE AddForVulnerable(_, _, _, _, _)
AddForVulnerable(r, v, potential, connectionsToAdd, i) ==
    IF \/ i >= connectionsToAdd
       \/ i >= Len(potential)
       \/ r.added >= maxRedundantConnections(r.g.systems)
    THEN r
    ELSE LET target == potential[i + 1]
             distance == SystemDistance(r.g.systems, v, target)
         IN IF DistLess(distance, 4 * cfg.radius, 10)
            THEN AddForVulnerable([g |-> createWarpLane(r.g, v, target, distance),
                                   added |-> r.added + 1],
                                  v, potential, connectionsToAdd, i + 1)
            ELSE AddForVulnerable(r, v, potential, connectionsToAdd, i + 1)

\* the outer loop over the vulnerable systems found before any lane was added
RECURSIVE RedundantFrom(_, _, _)
RedundantFrom(r, vulnerable, k) ==
    IF k > Len(vulnerable) \/ r.added >= maxRedundantConnections(r.g.systems) THEN r
    ELSE LET v == vulnerable[k]
             connectionsToAdd == IF Degree(r.g, v) = 1 THEN 2 ELSE 1
         IN RedundantFrom(
               AddForVulnerable(r, v, PotentialConnections(r.g, v), connectionsToAdd, 0),
               vulnerable, k + 1)

RedundantConnections(g) ==
    LET vulnerable == SelectSeq([a \in DOMAIN g.systems |-> a],
                                LAMBDA a : isVulnerable(g, a))
    IN IF Len(g.systems) < 3 THEN [g |-> g, added |-> 0]
       ELSE RedundantFrom([g |-> g, added |-> 0], vulnerable, 1)

addRedundantConnections(g) == RedundantConnections(g).g

----------------------------------------------------------------------------
(* Traditional mode: generateStarSystems and generateWarpLanes *)

isPositionTooCloseToSystems(pos, ss, minDistance) ==
    \E n \in DOMAIN ss : DistLess(calculateDistance(pos, Pos(ss[n])), minDistance, 1)

\* one fixed system of the first loop of generateStarSystems
PlaceFixedSystem ==
    /\ pc = "tfixed"
    /\ idx < Len(cfg.fixedSystems)
    /\ LET f == cfg.fixedSystems[idx + 1]
       IN \E d \in FixedDraws(f), planets \in SeededPlanetSteps :
            /\ Replay(<<d, planets>>)
            /\ stream' = Drawn(<<d, planets>>)
            /\ systems' = Append(systems, FixedStarSystem(f, FixedPosition(f, d), planets))
    /\ idx' = idx + 1
    /\ UNCHANGED <<cfg, pc, voronoiSites, sites, warpLanes, connections, anomalies,
                   counters, rd, run, prev>>

FixedPlaced ==
    /\ pc = "tfixed"
    /\ idx = Len(cfg.fixedSystems)
    /\ pc' = "trandom"
    /\ idx' = 0
    /\ UNCHANGED <<cfg, voronoiSites, sites, systems, warpLanes, connections,
                   anomalies, counters, rd, run, stream, prev>>

remainingSystems == cfg.starSystemCount - Len(cfg.fixedSystems)

SystemPositionValid(pos) == ~isPositionTooCloseToSystems(pos, systems, SystemMinDistance)

\* one random system of the second loop of generateStarSystems
PlaceRandomSystem ==
    /\ pc = "trandom"
    /\ idx < remainingSystems
    /\ \E d \in PositionDraws :
         LET pos == generateRandomPositionInCircle(d[1], d[2])
         IN \E attempts \in LoopEnds(SystemPositionValid, SystemAttemptCap, pos) :
              /\ Replay(<<d, attempts>>)
              /\ stream' = Drawn(<<d, attempts>>)
              /\ systems' = Append(systems, GeneratedStarSystem(idx + 1, pos, DeviceNext))
    /\ rd' = DeviceTaken
    /\ idx' = idx + 1
    /\ UNCHANGED <<cfg, pc, voronoiSites, sites, warpLanes, connections, anomalies,
                   counters, run, prev>>

\* generateStarSystems returns; generateWarpLanes clears its connection map
SystemsPlaced ==
    /\ pc = "trandom"
    /\ idx >= remainingSystems
    /\ connections' = EmptyConnections(systems)
    /\ pc' = "tlanes"
    /\ idx' = 0
    /\ UNCHANGED <<cfg, voronoiSites, sites, systems, warpLanes, anomalies,
                   counters, rd, run, stream, prev>>

\* the candidates of system a: the others within maxDistance, nearest first
\* (equal distances in vector order)
Candidates(ss, a) ==
    LET near == {<<SystemDistance(ss, a, b), b>> :
                    b \in {c \in DOMAIN ss :
                              /\ ss[c].id # ss[a].id
                              /\ DistLeq(SystemDistance(ss, a, c), cfg.maxDistance, 1)}}
    IN SortSet(near, PairLess)

\* exp(-normalizedDistance * decay) * diversityBonus >= 1: then random.next(),
\* which is below 1, is below it whatever it is.  With the bonus 1.5 that is
\* distance * decay <= ln(1.5) * maxDistance, and ln(1.5)^2 = 0.16440195...
AcceptanceCertain(d2, bonusX10) ==
    \/ d2 = 0
    \/ cfg.decayTenths = 0
    \/ /\ bonusX10 = 15
       /\ d2 * cfg.decayTenths * cfg.decayTenths * 1000000
             <= 16440195 * cfg.maxDistance * cfg.maxDistance

\* Phase 1a: the two closest candidates, unless already connected
RECURSIVE GuaranteedFrom(_, _, _, _)
GuaranteedFrom(g, a, cands, i) ==
    IF i >= Min2(2, Len(cands)) THEN g
    ELSE LET c == cands[i + 1]
         IN IF ~Contains(g.connections[g.systems[a].id], g.systems[c[2]].id)
            THEN GuaranteedFrom(createWarpLane(g, a, c[2], c[1]), a, cands, i + 1)
            ELSE GuaranteedFrom(g, a, cands, i + 1)

\* a variant that gives no candidate the bonus
NoBonusX10(g, c) == 10

\* diversityBonus, times 10, for the candidate c
diversityBonusX10(g, c) == IF Degree(g, c) < 2 THEN 15 ELSE 10

\* Phase 1b.  low[k] says that the draw made for candidate k is the smallest
\* value of the stream (0), which is below every probability; otherwise it is
\* the largest, which is below a probability only if that is at least 1.
\* r.g is the graph, r.decided the candidates whose draw decided the outcome,
\* r.tests the acceptance tests made: the lanes the source and the candidate
\* had, and the bonus used.
RECURSIVE ProbabilisticFrom(_, _, _, _, _, _)
ProbabilisticFrom(r, a, cands, targetConnections, low, k) ==
    IF k > Len(cands) \/ Degree(r.g, a) >= targetConnections THEN r
    ELSE LET c == cands[k]
             bonusX10 == diversityBonusX10(r.g, c[2])
             certain == AcceptanceCertain(c[1], bonusX10)
             decided == IF certain THEN r.decided ELSE r.decided \cup {k}
             tests == Append(r.tests, [source |-> Degree(r.g, a),
                                       candidate |-> Degree(r.g, c[2]),
                                       bonusX10 |-> bonusX10])
         IN IF Contains(r.g.connections[r.g.systems[a].id], r.g.systems[c[2]].id)
            THEN ProbabilisticFrom(r, a, cands, targetConnections, low, k + 1)
            ELSE IF low[k] \/ certain
                 THEN ProbabilisticFrom([g |-> createWarpLane(r.g, a, c[2], c[1]),
                                         decided |-> decided, tests |-> tests],
                                        a, cands, targetConnections, low, k + 1)
                 ELSE ProbabilisticFrom([r EXCEPT !.decided = decided, !.tests = tests],
                                        a, cands, targetConnections, low, k + 1)

\* normalizedDistanceFromOrigin < 0.3
NearOrigin(s) == DistLess(calculateDistance(Pos(s), <<0, 0>>), 3 * cfg.radius, 10)

\* one system of Phase 1 of generateWarpLanes
ConnectSystem ==
    /\ pc = "tlanes"
    /\ idx < Len(systems)
    /\ LET a == idx + 1
           g == Graph(systems, warpLanes, connections)
           cands == Candidates(systems, a)
           maxConnections == cfg.maxConnections + (IF NearOrigin(systems[a]) THEN 2 ELSE 0)
       IN \E targetConnections \in cfg.minConnections..maxConnections,
             low \in [DOMAIN cands -> BOOLEAN] :
            LET g1 == GuaranteedFrom(g, a, cands, 0)
                r == ProbabilisticFrom([g |-> g1, decided |-> {}, tests |-> << >>],
                                       a, cands, targetConnections, low, 1)
                g2 == r.g
            IN /\ \A k \in DOMAIN cands : low[k] => k \in r.decided
               /\ Replay(<<targetConnections, low>>)
               /\ stream' = Drawn(<<targetConnections, low>>)
               /\ systems' = g2.systems
               /\ warpLanes' = g2.warpLanes
               /\ connections' = g2.connections
    /\ idx' = idx + 1
    /\ UNCHANGED <<cfg, pc, voronoiSites, sites, anomalies, counters, rd, run, prev>>

\* Phases 2 and 3 of generateWarpLanes
RepairNetwork ==
    /\ pc = "tlanes"
    /\ idx = Len(systems)
    /\ LET r == NetworkConnectivity(
                   ensureMinimumConnectivity(Graph(systems, warpLanes, connections)))
       IN /\ systems' = r.g.systems
          /\ warpLanes' = r.g.warpLanes
          /\ connections' = r.g.connections
          /\ counters' = [counters EXCEPT !.bridgesAdded = r.bridgesAdded]
    /\ pc' = "redundant"
    /\ idx' = 0
    /\ UNCHANGED <<cfg, voronoiSites, sites, anomalies, rd, run, stream, prev>>

----------------------------------------------------------------------------
(* generateGalaxy, from the lane builder on *)

\* the loop of generateSystemsFromVoronoi has ended; generateVoronoiWarpLanes
BuildVoronoiLanes ==
    /\ pc = "generated"
    /\ (Len(systems) >= cfg.starSystemCount \/ FreeSitesAfter(idx) = {})
    /\ LET g == generateVoronoiWarpLanes(systems)
       IN /\ systems' = g.systems
          /\ warpLanes' = g.warpLanes
          /\ connections' = g.connections
    /\ pc' = "redundant"
    /\ idx' = 0
    /\ UNCHANGED <<cfg, voronoiSites, sites, anomalies, counters, rd, run, stream, prev>>

\* a variant that leaves the map as it was initialised
ConnectionsForgotten(conns, lanes, k) == conns

\* the connections map generateGalaxy builds from the lanes
RECURSIVE ConnectionsOfLanes(_, _, _)
ConnectionsOfLanes(conns, lanes, k) ==
    IF k > Len(lanes) THEN conns
    ELSE LET c1 == [conns EXCEPT ![lanes[k].from] = Append(@, lanes[k].to)]
             c2 == [c1 EXCEPT ![lanes[k].to] = Append(@, lanes[k].from)]
         IN ConnectionsOfLanes(c2, lanes, k + 1)

AddRedundant ==
    /\ pc = "redundant"
    /\ LET map == ConnectionsOfLanes(EmptyConnections(systems), warpLanes, 1)
           r == RedundantConnections(Graph(systems, warpLanes, map))
       IN /\ systems' = r.g.systems
          /\ warpLanes' = r.g.warpLanes
          /\ connections' = r.g.connections
          /\ counters' = [counters EXCEPT !.redundantConnectionsAdded = r.added,
                                          !.lanesBeforeRedundant = Len(warpLanes)]
    /\ pc' = "safetynet"
    /\ UNCHANGED <<cfg, voronoiSites, sites, anomalies, idx, rd, run, stream, prev>>

\* the final ensureMinimumConnectivity, then system.connections = connections[system.id]
SafetyNet ==
    /\ pc = "safetynet"
    /\ LET g == ensureMinimumConnectivity(Graph(systems, warpLanes, connections))
       IN /\ systems' = [n \in DOMAIN g.systems |->
                            [g.systems[n] EXCEPT !.connections = g.connections[g.systems[n].id]]]
          /\ warpLanes' = g.warpLanes
          /\ connections' = g.connections
    /\ pc' = "anomalies"
    /\ idx' = 0
    /\ UNCHANGED <<cfg, voronoiSites, sites, anomalies, counters, rd, run, stream, prev>>

----------------------------------------------------------------------------
(* Anomalies *)

\* a variant that never finds an anomaly too close
NeverTooClose(pos, as, minDistance) == FALSE

isPositionTooClose(pos, as, minDistance) ==
    \E n \in DOMAIN as : DistLess(calculateDistance(pos, Pos(as[n])), minDistance, 1)

\* the categories generateAnomalyType is taken to land on
AnomalyTypeSteps == {"nebula"}

AnomalyEffect(type) ==
    CASE type = "nebula" -> <<"sensor_interference", -5>>
      [] type = "blackhole" -> <<"gravity_well", 20>>
      [] type = "wormhole" -> <<"fast_travel", 1>>
      [] type = "artifact" -> <<"research_bonus", 15>>
      [] type = "resource" -> <<"mining_bonus", 20>>
      [] OTHER -> <<"none", 0>>

AnomalyPositionValid(pos) ==
    ~(\/ isPositionTooCloseToSystems(pos, systems, AnomalySystemMin)
      \/ isPositionTooClose(pos, anomalies, AnomalyAnomalyMin))

\* a variant that keeps the anomaly only when the loop found a valid position
PushUnlessExhausted(as, anomaly, attempts) ==
    IF attempts < AnomalyAttemptCap THEN Append(as, anomaly) ELSE as

\* anomalies.push_back(anomaly), whatever `attempts` the loop ended with
PushAnomaly(as, anomaly, attempts) == Append(as, anomaly)

\* one anomaly of the loop of generateAnomalies
PlaceAnomaly ==
    /\ pc = "anomalies"
    /\ idx < cfg.anomalyCount
    /\ \E d \in PositionDraws, type \in AnomalyTypeSteps :
         LET pos == generateRandomPositionInCircle(d[1], d[2])
         IN \E attempts \in LoopEnds(AnomalyPositionValid, AnomalyAttemptCap, pos) :
              /\ Replay(<<d, attempts, type>>)
              /\ stream' = Drawn(<<d, attempts, type>>)
              /\ anomalies' = PushAnomaly(anomalies,
                                          [id |-> AnomalyIdOf(idx + 1), type |-> type,
                                           x |-> pos[1], y |-> pos[2], discovered |-> FALSE,
                                           effect |-> AnomalyEffect(type)],
                                          attempts)
              /\ counters' = [counters EXCEPT !.anomalyAttempts = Append(@, attempts)]
    /\ idx' = idx + 1
    /\ UNCHANGED <<cfg, pc, voronoiSites, sites, systems, warpLanes, connections,
                   rd, run, prev>>

\* generateGalaxy returns the galaxy
ReturnGalaxy ==
    /\ pc = "anomalies"
    /\ idx = cfg.anomalyCount
    /\ pc' = "done"
    /\ UNCHANGED <<cfg, voronoiSites, sites, systems, warpLanes, connections,
                   anomalies, idx, counters, rd, run, stream, prev>>

----------------------------------------------------------------------------
(* Specification of one run of generateGalaxy on a fresh generator *)

DeviceTapes == {<<4>>}

NoCounters == [redundantConnectionsAdded |-> 0, lanesBeforeRedundant |-> 0,
               bridgesAdded |-> 0, anomalyAttempts |-> << >>]
NoGalaxy == [systems |-> << >>, warpLanes |-> << >>, anomalies |-> << >>]

Fresh ==
    /\ pc = (IF cfg.useVoronoiConnectivity THEN "sites" ELSE "tfixed")
    /\ voronoiSites = << >>
    /\ sites = << >>
    /\ systems = << >>
    /\ warpLanes = << >>
    /\ connections = << >>
    /\ anomalies = << >>
    /\ idx = 0
    /\ counters = NoCounters

Init ==
    /\ cfg \in Configs
    /\ Fresh
    /\ rd \in [tape : DeviceTapes, taken : {0}]
    /\ run = 0
    /\ stream = << >>
    /\ prev = NoGalaxy

Next ==
    \/ PlaceSite
    \/ ComputeNeighbors
    \/ AssignFixedToSite
    \/ FixedAssigned
    \/ GenerateAtSite
    \/ BuildVoronoiLanes
    \/ PlaceFixedSystem
    \/ FixedPlaced
    \/ PlaceRandomSystem
    \/ SystemsPlaced
    \/ ConnectSystem
    \/ RepairNetwork
    \/ AddRedundant
    \/ SafetyNet
    \/ PlaceAnomaly
    \/ ReturnGalaxy

Spec == Init /\ [][Next]_vars

----------------------------------------------------------------------------
(* Two runs with the same configuration and seed: the second generator is   *)
(* freshly constructed and its seeded source repeats the stream of the      *)
(* first; std::random_device goes on handing out new values.                *)

MaxPlacedTwice == 2
DeviceTapesTwice == {<<4, 10>>}

Galaxy == [systems |-> systems, warpLanes |-> warpLanes, anomalies |-> anomalies]

RunAgain ==
    /\ pc = "done"
    /\ run = 1
    /\ prev' = Galaxy
    /\ run' = 2
    /\ pc' = (IF cfg.useVoronoiConnectivity THEN "sites" ELSE "tfixed")
    /\ voronoiSites' = << >>
    /\ sites' = << >>
    /\ systems' = << >>
    /\ warpLanes' = << >>
    /\ connections' = << >>
    /\ anomalies' = << >>
    /\ idx' = 0
    /\ counters' = NoCounters
    /\ UNCHANGED <<cfg, rd, stream>>

InitTwice ==
    /\ cfg \in {c \in Configs : c.starSystemCount + c.anomalyCount <= MaxPlacedTwice}
    /\ Fresh
    /\ rd \in [tape : DeviceTapesTwice, taken : {0}]
    /\ run = 1
    /\ stream = << >>
    /\ prev = NoGalaxy

NextTwice == Next \/ RunAgain

SpecTwice == InitTwice /\ [][NextTwice]_vars

----------------------------------------------------------------------------
(* The two repairs on their own: ensureNetworkConnectivity and              *)
(* ensureMinimumConnectivity called on systems stored in any order with any *)
(* set of lanes between them.                                               *)

MaxRepairSystems == 4

\* systems of the servers' configurations, at the scale of the model
RepairStars ==
    {Exact("sol", 0, 0, "origin"), Exact("alpha-centauri", 2, 0, "core"),
     Exact("tau-ceti", 0, 2, "core"), Exact("barnards-star", 2, 2, "core"),
     Exact("bellatrix", 3, 0, "core")}

RepairConfig ==
    [useVoronoiConnectivity |-> FALSE, radius |-> 10, starSystemCount |-> 0,
     anomalyCount |-> 0, fixedSystems |-> << >>, minConnections |-> 1,
     maxConnections |-> 2, maxDistance |-> 3, decayTenths |-> 3]

\* the systems vector: distinct stars in any order
RepairLayouts ==
    UNION {{[k \in DOMAIN f |-> FixedStarSystem(f[k], FixedPosition(f[k], <<0, 0>>), 4)] :
               f \in {h \in [1..count -> RepairStars] :
                         \A i, j \in 1..count : i # j => h[i] # h[j]}} :
           count \in 1..MaxRepairSystems}

\* createWarpLane for each pair of the sequence pairs, from the k-th on
RECURSIVE LanesFrom(_, _, _)
LanesFrom(g, pairs, k) ==
    IF k > Len(pairs) THEN g
    ELSE LanesFrom(createWarpLane(g, pairs[k][1], pairs[k][2],
                                  SystemDistance(g.systems, pairs[k][1], pairs[k][2])),
                   pairs, k + 1)

\* the pairs of systems a lane can join, and the graph with a lane for each
\* pair of E
RepairPairs(ss) == {e \in (DOMAIN ss) \X (DOMAIN ss) : e[1] < e[2]}
RepairInput(ss, E) ==
    LanesFrom(Graph(ss, << >>, EmptyConnections(ss)), SortSet(E, PairLess), 1)

InitRepair ==
    /\ cfg = RepairConfig
    /\ pc = "input"
    /\ \E ss \in RepairLayouts :
          \E E \in SUBSET RepairPairs(ss) :
              LET g == RepairInput(ss, E)
              IN /\ systems = g.systems
                 /\ warpLanes = g.warpLanes
                 /\ connections = g.connections
    /\ voronoiSites = << >>
    /\ sites = << >>
    /\ anomalies = << >>
    /\ idx = 0
    /\ counters = NoCounters
    /\ rd \in [tape : DeviceTapes, taken : {0}]
    /\ run = 0
    /\ stream = << >>
    /\ prev = NoGalaxy

CallNetworkConnectivity ==
    /\ pc = "input"
    /\ LET r == NetworkConnectivity(Graph(systems, warpLanes, connections))
       IN /\ systems' = r.g.systems
          /\ warpLanes' = r.g.warpLanes
          /\ connections' = r.g.connections
          /\ counters' = [counters EXCEPT !.bridgesAdded = r.bridgesAdded]
    /\ prev' = Galaxy
    /\ pc' = "bridged"
    /\ UNCHANGED <<cfg, voronoiSites, sites, anomalies, idx, rd, run, stream>>

CallMinimumConnectivity ==
    /\ pc = "input"
    /\ LET g == ensureMinimumConnectivity(Graph(systems, warpLanes, connections))
       IN /\ systems' = g.systems
          /\ warpLanes' = g.warpLanes
          /\ connections' = g.connections
    /\ prev' = Galaxy
    /\ pc' = "minconnected"
    /\ UNCHANGED <<cfg, voronoiSites, sites, anomalies, idx, counters, rd, run, stream>>

NextRepair == CallNetworkConnectivity \/ CallMinimumConnectivity

SpecRepair == InitRepair /\ [][NextRepair]_vars

----------------------------------------------------------------------------
(* computeVoronoiNeighbors on its own: called on sites that                 *)
(* generateVoronoiSites can return, more of them than a site keeps of its   *)
(* nearest.                                                                 *)

MaxNeighborSites == 8

NeighborsConfig ==
    [useVoronoiConnectivity |-> TRUE, radius |-> 10, starSystemCount |-> 0,
     anomalyCount |-> 0, fixedSystems |-> << >>, minConnections |-> 1,
     maxConnections |-> 2, maxDistance |-> 3, decayTenths |-> 3]

\* positions generateRandomPositionInCircle lands on, at any quarter turn
SitePoints ==
    {generateRandomPositionInCircle(q, k) : q \in 0..3, k \in RadialSteps(NeighborsConfig.radius)}

\* the sites in the order of their coordinates, or in the opposite order
SiteOrders(S) ==
    LET up == SortSet(S, PairLess)
    IN {up, [n \in DOMAIN up |-> up[Len(up) + 1 - n]]}

InitNeighbors ==
    /\ pc = "sites"
    /\ \E S \in SUBSET SitePoints :
          /\ Cardinality(S) <= MaxNeighborSites
          /\ \E order \in SiteOrders(S) :
                /\ sites = [n \in DOMAIN order |-> NewSite(order[n])]
                /\ cfg = [NeighborsConfig EXCEPT !.starSystemCount = Len(order)]
                /\ idx = Len(order)
    /\ voronoiSites = << >>
    /\ systems = << >>
    /\ warpLanes = << >>
    /\ connections = << >>
    /\ anomalies = << >>
    /\ counters = NoCounters
    /\ rd \in [tape : DeviceTapes, taken : {0}]
    /\ run = 0
    /\ stream = << >>
    /\ prev = NoGalaxy

NextNeighbors == ComputeNeighbors

SpecNeighbors == InitNeighbors /\ [][NextNeighbors]_vars

----------------------------------------------------------------------------
(* addRedundantConnections on its own: called on systems stored in any      *)
(* order with any set of lanes between them.                                *)

MaxRedundantSystems == 5

\* systems of the servers' configurations, at the scale of the model
RedundantStars ==
    {Exact("sol", 0, 0, "origin"), Exact("alpha-centauri", 4, 0, "core"),
     Exact("tau-ceti", 2, 3, "core"), Exact("barnards-star", 0, 2, "core"),
     Exact("bellatrix", 0, -2, "core")}

\* the systems vector: distinct stars in any order
RedundantLayouts ==
    UNION {{[k \in DOMAIN f |-> FixedStarSystem(f[k], FixedPosition(f[k], <<0, 0>>), 4)] :
               f \in {h \in [1..count -> RedundantStars] :
                         \A i, j \in 1..count : i # j => h[i] # h[j]}} :
           count \in 1..MaxRedundantSystems}

InitRedundant ==
    /\ cfg = RepairConfig
    /\ pc = "redundant"
    /\ \E ss \in RedundantLayouts :
          \E E \in SUBSET RepairPairs(ss) :
              LET g == RepairInput(ss, E)
              IN /\ systems = g.systems
                 /\ warpLanes = g.warpLanes
                 /\ connections = g.connections
    /\ voronoiSites = << >>
    /\ sites = << >>
    /\ anomalies = << >>
    /\ idx = 0
    /\ counters = NoCounters
    /\ rd \in [tape : DeviceTapes, taken : {0}]
    /\ run = 0
    /\ stream = << >>
    /\ prev = NoGalaxy

NextRedundant == AddRedundant

SpecRedundant == InitRedundant /\ [][NextRedundant]_vars

----------------------------------------------------------------------------
(* generateVoronoiSites on a generator that has generated before: the       *)
(* member voronoiSites, which isValidVoronoiPosition reads, still holds the *)
(* sites of the earlier call.  The draws of each slot are recorded.         *)

MaxSlots == 2
MaxEarlierSites == 2

\* voronoiSites as an earlier generateGalaxy without fixed systems leaves it
EarlierSites(order) ==
    computeVoronoiNeighbors([n \in DOMAIN order |->
                                [NewSite(order[n]) EXCEPT !.hasSystem = TRUE,
                                                          !.systemId = SystemIdOf(n)]])

InitSites ==
    /\ pc = "sites"
    /\ \E count \in 1..MaxSlots :
          cfg = [NeighborsConfig EXCEPT !.starSystemCount = count]
    /\ \E S \in SUBSET SitePoints :
          /\ Cardinality(S) <= MaxEarlierSites
          /\ voronoiSites = EarlierSites(SortSet(S, PairLess))
    /\ sites = << >>
    /\ idx = 0
    /\ systems = << >>
    /\ warpLanes = << >>
    /\ connections = << >>
    /\ anomalies = << >>
    /\ counters = NoCounters
    /\ rd \in [tape : DeviceTapes, taken : {0}]
    /\ run = 1
    /\ stream = << >>
    /\ prev = NoGalaxy

NextSites == PlaceSite \/ ComputeNeighbors

SpecSites == InitSites /\ [][NextSites]_vars

----------------------------------------------------------------------------
(* Properties *)

SystemIds == {systems[n].id : n \in DOMAIN systems}

\* the ids that lanes join, directly or over other systems, to the ids in seen
RECURSIVE ReachableIds(_, _)
ReachableIds(lanes, seen) ==
    LET more == seen
                \cup {lanes[k].to : k \in {j \in DOMAIN lanes : lanes[j].from \in seen}}
                \cup {lanes[k].from : k \in {j \in DOMAIN lanes : lanes[j].to \in seen}}
    IN IF more = seen THEN seen ELSE ReachableIds(lanes, more)

SingleComponent ==
    \A n \in DOMAIN systems : ReachableIds(warpLanes, {systems[n].id}) = SystemIds

Joined(a, b) ==
    \E k \in DOMAIN warpLanes :
        \/ (warpLanes[k].from = a /\ warpLanes[k].to = b)
        \/ (warpLanes[k].from = b /\ warpLanes[k].to = a)

\* C1: for starSystemCount >= 1, in either mode, the lane graph of the galaxy
\* generateGalaxy returns is one connected component over all systems.
C1_FullConnectivity ==
    (pc = "done" /\ cfg.starSystemCount >= 1) => SingleComponent

\* C2: a second run on a fresh generator with the same configuration and seed
\* returns the same galaxy as the first, in every field of its systems, lanes
\* and anomalies.
C2_Determinism ==
    (run = 2 /\ pc = "done") => Galaxy = prev

\* C3: no lane joins a system to itself, no two lanes join the same unordered
\* pair, and createWarpLane on a pair that already has a lane, in either
\* direction, changes neither the lanes nor the adjacency.
C3_NoDuplicateOrSelfLanes ==
    /\ \A k \in DOMAIN warpLanes : warpLanes[k].from # warpLanes[k].to
    /\ \A j, k \in DOMAIN warpLanes :
          j # k => {warpLanes[j].from, warpLanes[j].to} # {warpLanes[k].from, warpLanes[k].to}
    /\ \A a, b \in DOMAIN systems :
          Joined(systems[a].id, systems[b].id) =>
             createWarpLane(Graph(systems, warpLanes, connections), a, b,
                            SystemDistance(systems, a, b))
                = Graph(systems, warpLanes, connections)

C3_Witness ==
    /\ pc = "done"
    /\ Len(warpLanes) >= 3
    /\ counters.redundantConnectionsAdded >= 1

\* C4: any two distinct sites that generateVoronoiSites returns are at least
\* the minimum separation (2.5) apart.
C4_SiteSeparation ==
    \A i, j \in DOMAIN sites :
        i # j => 4 * calculateDistance(Pos(sites[i]), Pos(sites[j])) >= 25

\* C5: with more fixed systems than starSystemCount (or than sites), generation
\* fails before returning a galaxy, and no two fixed systems are bound to the
\* same site.
C5_FixedOverflowRejected ==
    Len(cfg.fixedSystems) > cfg.starSystemCount =>
        /\ pc # "done"
        /\ cfg.useVoronoiConnectivity =>
              \A n \in DOMAIN systems :
                  systems[n].isFixed =>
                      \E i \in DOMAIN voronoiSites : voronoiSites[i].systemId = systems[n].id

\* C6: in the returned galaxy every configured fixed system appears exactly
\* once, flagged fixed, with its id and class, at its exact coordinates or at
\* a distance from the origin within target -/+ tolerance; no other system is
\* flagged fixed.
C6_FixedSystemsPlaced ==
    pc = "done" =>
        /\ \A k \in DOMAIN cfg.fixedSystems :
              LET f == cfg.fixedSystems[k]
                  hits == {n \in DOMAIN systems : systems[n].id = f.id}
              IN /\ Cardinality(hits) = 1
                 /\ \A n \in hits :
                       LET d2 == systems[n].x * systems[n].x + systems[n].y * systems[n].y
                           lo == f.targetDistance - f.distanceTolerance
                           hi == f.targetDistance + f.distanceTolerance
                       IN /\ systems[n].isFixed
                          /\ systems[n].type = f.type
                          /\ f.hasFixedPosition => (systems[n].x = f.x /\ systems[n].y = f.y)
                          /\ ~f.hasFixedPosition => (lo * lo <= d2 /\ d2 <= hi * hi)
        /\ \A n \in DOMAIN systems :
              systems[n].isFixed =>
                  \E k \in DOMAIN cfg.fixedSystems : cfg.fixedSystems[k].id = systems[n].id

C6_Witness ==
    /\ pc = "done"
    /\ Len(cfg.fixedSystems) = 3
    /\ \E n \in DOMAIN systems : ~systems[n].isFixed
    /\ \E n \in DOMAIN systems : systems[n].id = "aspida" /\ Abs(systems[n].x) = 11

\* C7: addRedundantConnections appends at most min(systemCount / 4, 40) lanes
\* (integer division), and none with fewer than 3 systems.
C7_BoundedRedundancy ==
    pc = "safetynet" =>
        LET appended == Len(warpLanes) - counters.lanesBeforeRedundant
        IN /\ appended <= Min2(Len(systems) \div 4, 40)
           /\ Len(systems) < 3 => appended = 0

C7_Witness ==
    /\ pc = "safetynet"
    /\ Len(systems) = 4
    /\ Len(warpLanes) - counters.lanesBeforeRedundant = 1
    /\ counters.redundantConnectionsAdded = 1

\* C8: an anomaly whose placement ended before the attempt cap (100) is at
\* least 3.0 from every system and at least 2.0 from every anomaly placed
\* before it.
C8_AnomalySeparation ==
    \A k \in DOMAIN anomalies :
        counters.anomalyAttempts[k] < 100 =>
            /\ \A n \in DOMAIN systems :
                  calculateDistance(Pos(anomalies[k]), Pos(systems[n])) >= 9
            /\ \A j \in 1..(k - 1) :
                  calculateDistance(Pos(anomalies[k]), Pos(anomalies[j])) >= 4

C8_Witness ==
    /\ Len(anomalies) = 2
    /\ Len(systems) >= 2
    /\ \A k \in DOMAIN anomalies : counters.anomalyAttempts[k] < 100

\* C9: generateAnomalies returns exactly anomalyCount anomalies, with the ids
\* anomaly-1 .. anomaly-N in order: an anomaly whose placement exhausted the
\* attempt cap is kept at its last sampled position.
C9_AnomalyCount ==
    pc = "done" =>
        /\ Len(anomalies) = cfg.anomalyCount
        /\ \A k \in DOMAIN anomalies : anomalies[k].id = AnomalyIdTable[k]

C9_Witness ==
    /\ pc = "done"
    /\ cfg.anomalyCount = 2
    /\ \E k \in DOMAIN anomalies :
          /\ counters.anomalyAttempts[k] = 100
          /\ \E n \in DOMAIN systems :
                calculateDistance(Pos(anomalies[k]), Pos(systems[n])) < 9

\* C10: every system lies within the disk (distance from the origin <= radius),
\* except fixed systems given exact coordinates.
C10_WithinDisk ==
    \A n \in DOMAIN systems :
        \/ \E k \in DOMAIN cfg.fixedSystems :
              cfg.fixedSystems[k].id = systems[n].id /\ cfg.fixedSystems[k].hasFixedPosition
        \/ systems[n].x * systems[n].x + systems[n].y * systems[n].y
              <= cfg.radius * cfg.radius

\* C11: every field of the returned galaxy, the star type and the planet and
\* moon counts of each system included, is a function of the seed and the
\* configuration: a second run with both unchanged gives every system the
\* system information it had in the first.
C11_SingleRandomSource ==
    (run = 2 /\ pc = "done") =>
        /\ Len(systems) = Len(prev.systems)
        /\ \A n \in DOMAIN systems : systems[n].planetCount = prev.systems[n].planetCount

CountIn(s, e) == Cardinality({i \in DOMAIN s : s[i] = e})
LanesJoining(a, b) ==
    Cardinality({k \in DOMAIN warpLanes : {warpLanes[k].from, warpLanes[k].to} = {a, b}})
IncidentLanes(a) ==
    Cardinality({k \in DOMAIN warpLanes : a \in {warpLanes[k].from, warpLanes[k].to}})

\* C12: in the returned galaxy an id t occurs in s.connections once per lane
\* joining s and t and not otherwise, so t is in s.connections iff s is in
\* t.connections, and the length of s.connections is the number of lanes at s.
C12_ConnectionsInSync ==
    pc = "done" =>
        \A n \in DOMAIN systems :
            /\ \A t \in SystemIds \cup Range(systems[n].connections) :
                  CountIn(systems[n].connections, t) = LanesJoining(systems[n].id, t)
            /\ \A m \in DOMAIN systems :
                  Contains(systems[n].connections, systems[m].id)
                     <=> Contains(systems[m].connections, systems[n].id)
            /\ Len(systems[n].connections) = IncidentLanes(systems[n].id)

C12_Witness ==
    /\ pc = "done"
    /\ counters.redundantConnectionsAdded >= 1
    /\ \E n \in DOMAIN systems : Len(systems[n].connections) >= 2
    /\ \E n \in DOMAIN systems : Len(systems[n].connections) = 1

\* C13: with fewer than two systems the lane builder, the repairs and the
\* redundancy stage leave no lane, no bridge and no adjacency entry, and a
\* configuration asking for no system, or for the origin alone, ends without
\* an error.
C13_FewSystemsNoOp ==
    /\ (pc \in {"redundant", "safetynet", "anomalies", "done"} /\ Len(systems) < 2) =>
          /\ warpLanes = << >>
          /\ counters.bridgesAdded = 0
          /\ counters.redundantConnectionsAdded = 0
          /\ \A n \in DOMAIN systems :
                systems[n].connections = << >> /\ connections[systems[n].id] = << >>
    /\ (cfg.starSystemCount = Len(cfg.fixedSystems) /\ cfg.starSystemCount <= 1) =>
          pc # "crashed"

C13_Witness ==
    /\ pc = "done"
    /\ cfg.starSystemCount = 1
    /\ Len(systems) = 1
    /\ systems[1].id = "sol"
    /\ cfg.anomalyCount >= 1

\* what the repair under way has appended to the lanes it was given
Appended == (Len(prev.warpLanes) + 1)..Len(warpLanes)
LanesBefore(k) == SubSeq(warpLanes, 1, k - 1)
Apart(lanes, a, b) == b \notin ReachableIds(lanes, {a})
ComponentCount(ss, lanes) ==
    Cardinality({ReachableIds(lanes, {ss[n].id}) : n \in DOMAIN ss})

\* C14: for two or more systems with distinct ids and any lanes between them,
\* the empty set included, the lane graph is one connected component when
\* ensureNetworkConnectivity returns.
C14_BridgingConnects ==
    (pc = "bridged" /\ Len(systems) >= 2) => SingleComponent

C14_Witness ==
    /\ pc = "bridged"
    /\ Len(systems) = 4
    /\ prev.warpLanes = << >>
    /\ counters.bridgesAdded = 3

\* C15: when ensureNetworkConnectivity adds a bridge, no two systems that lie
\* in different components of the lanes present at that moment are strictly
\* nearer to each other than the two ends of the bridge.
C15_BridgeIsShortest ==
    pc = "bridged" =>
        \A k \in Appended :
            \A a, b \in DOMAIN systems :
                Apart(LanesBefore(k), systems[a].id, systems[b].id) =>
                    SystemDistance(systems, a, b) >= warpLanes[k].distance

C15_Witness ==
    /\ pc = "bridged"
    /\ Len(prev.warpLanes) >= 1
    /\ \E j, k \in Appended : warpLanes[j].distance < warpLanes[k].distance
    /\ \E a, b \in DOMAIN systems :
          /\ Apart(prev.warpLanes, systems[a].id, systems[b].id)
          /\ ~Joined(systems[a].id, systems[b].id)

\* C16: from lanes with c connected components ensureNetworkConnectivity
\* appends exactly c - 1 lanes, each between two systems that the lanes before
\* it left in different components, and keeps the lanes it was given.
C16_MinimalBridges ==
    (pc = "bridged" /\ Len(systems) >= 1) =>
        /\ Len(warpLanes) - Len(prev.warpLanes)
              = ComponentCount(prev.systems, prev.warpLanes) - 1
        /\ counters.bridgesAdded = Len(warpLanes) - Len(prev.warpLanes)
        /\ SubSeq(warpLanes, 1, Len(prev.warpLanes)) = prev.warpLanes
        /\ \A k \in Appended : Apart(LanesBefore(k), warpLanes[k].from, warpLanes[k].to)

C16_Witness ==
    /\ pc = "bridged"
    /\ Len(systems) = 4
    /\ Len(prev.warpLanes) = 1
    /\ ComponentCount(prev.systems, prev.warpLanes) = 3
    /\ Len(warpLanes) = 3

\* the place of an id in the lexicographic order of the ids
IdRank ==
    [id \in {"alpha-centauri", "barnards-star", "bellatrix", "sol", "tau-ceti"} |->
        CASE id = "alpha-centauri" -> 1 [] id = "barnards-star" -> 2
          [] id = "bellatrix" -> 3 [] id = "sol" -> 4 [] id = "tau-ceti" -> 5]
IdPair(a, b) == <<Min2(IdRank[a], IdRank[b]), Max2(IdRank[a], IdRank[b])>>
BridgePairs(lanes, given) ==
    {{lanes[k].from, lanes[k].to} : k \in (Len(given) + 1)..Len(lanes)}

\* C17: among candidate bridges of equal distance ensureNetworkConnectivity
\* takes the pair whose id pair is lexicographically smaller, and the bridges
\* it adds are the same for every order in which the systems are stored.
C17_TieBreakById ==
    pc = "bridged" =>
        /\ \A k \in Appended :
              \A a, b \in DOMAIN systems :
                  (/\ Apart(LanesBefore(k), systems[a].id, systems[b].id)
                   /\ SystemDistance(systems, a, b) = warpLanes[k].distance)
                     => ~PairLess(IdPair(systems[a].id, systems[b].id),
                                  IdPair(warpLanes[k].from, warpLanes[k].to))
        /\ \A p \in Permutations(DOMAIN prev.systems) :
              LET stored == [n \in DOMAIN prev.systems |-> prev.systems[p[n]]]
                  map == ConnectionsOfLanes(EmptyConnections(stored), prev.warpLanes, 1)
                  g == ensureNetworkConnectivity(Graph(stored, prev.warpLanes, map))
              IN BridgePairs(g.warpLanes, prev.warpLanes)
                    = BridgePairs(warpLanes, prev.warpLanes)

LanesAt(lanes, id) ==
    Cardinality({k \in DOMAIN lanes : id \in {lanes[k].from, lanes[k].to}})
WithinFallback(a, b) == DistLeq(SystemDistance(systems, a, b), 3 * cfg.radius, 10)
IsNearest(a, t) ==
    /\ t # a
    /\ \A u \in DOMAIN systems \ {a} :
          SystemDistance(systems, a, t) <= SystemDistance(systems, a, u)
HasNearWithin(a) == \E t \in DOMAIN systems : IsNearest(a, t) /\ WithinFallback(a, t)
JoinedToNearest(a) ==
    \E t \in DOMAIN systems : IsNearest(a, t) /\ Joined(systems[a].id, systems[t].id)
\* an isolated system stored before a was connected to a
TargetedBefore(a) ==
    \E k \in Appended :
        /\ warpLanes[k].to = systems[a].id
        /\ SystemToIndex(systems, warpLanes[k].from) < a

\* a system left without a lane has no other system within 30% of the radius
StillIsolatedAreFar ==
    \A a \in DOMAIN systems :
        LanesAt(warpLanes, systems[a].id) = 0 => ~HasNearWithin(a)
\* every lane appended runs from a system that had no lane to a nearest
\* other system, which is within 30% of the radius
AppendedAreFixUps ==
    \A k \in Appended :
        LET a == SystemToIndex(systems, warpLanes[k].from)
            t == SystemToIndex(systems, warpLanes[k].to)
        IN /\ LanesAt(prev.warpLanes, warpLanes[k].from) = 0
           /\ IsNearest(a, t)
           /\ WithinFallback(a, t)

\* C18 as stated: after ensureMinimumConnectivity every system that had no
\* lane and has its nearest other system within 30% of the radius is joined to
\* that nearest system; systems left without a lane have none that near; and
\* lanes are appended only from a system that had none to its nearest.
C18_IsolatedFixUp ==
    pc = "minconnected" =>
        /\ StillIsolatedAreFar
        /\ AppendedAreFixUps
        /\ \A a \in DOMAIN systems :
              (LanesAt(prev.warpLanes, systems[a].id) = 0 /\ HasNearWithin(a))
                 => JoinedToNearest(a)

\* C18 amended: a system that had no lane and has its nearest other system
\* within 30% of the radius is joined to that nearest system unless an isolated
\* system stored before it was connected to it first; the other two parts as
\* stated.
C18_IsolatedFixUpWhenVisited ==
    pc = "minconnected" =>
        /\ StillIsolatedAreFar
        /\ AppendedAreFixUps
        /\ \A a \in DOMAIN systems :
              (LanesAt(prev.warpLanes, systems[a].id) = 0 /\ HasNearWithin(a))
                 => (JoinedToNearest(a) \/ TargetedBefore(a))

C18_Witness ==
    /\ pc = "minconnected"
    /\ Len(prev.warpLanes) >= 1
    /\ Len(warpLanes) > Len(prev.warpLanes)
    /\ \E a \in DOMAIN systems :
          /\ LanesAt(prev.warpLanes, systems[a].id) = 0
          /\ HasNearWithin(a)
          /\ TargetedBefore(a)
          /\ ~JoinedToNearest(a)

IsPrefix(s, t) == Len(s) <= Len(t) /\ SubSeq(t, 1, Len(s)) = s
Placement(s) == [id |-> s.id, x |-> s.x, y |-> s.y, type |-> s.type]

\* C19: from the lane builder on, a step of generateGalaxy (the repairs, the
\* bridging, the redundancy stage, the anomalies) only appends lanes: the lanes
\* before it are a prefix, unchanged, of the lanes after it, no system is
\* removed, and no system changes its id, position or class.
C19_StagesOnlyAppend ==
    [][(pc \in {"tlanes", "redundant", "safetynet", "anomalies"} \/ pc' = "redundant") =>
          /\ IsPrefix(warpLanes, warpLanes')
          /\ Len(systems') = Len(systems)
          /\ \A n \in DOMAIN systems : Placement(systems'[n]) = Placement(systems[n])]_vars

C19_Witness ==
    /\ pc = "anomalies"
    /\ counters.lanesBeforeRedundant >= 2
    /\ counters.redundantConnectionsAdded >= 1
    /\ Len(warpLanes) > counters.lanesBeforeRedundant

\* C20: in Voronoi mode a fixed system is bound to the site nearest to its
\* position among the sites that carry no system at that moment, and a site
\* that carries a system keeps the systemId it has.
C20_SiteClaimedOnce ==
    [][/\ \A i \in DOMAIN voronoiSites \cap DOMAIN voronoiSites' :
             voronoiSites[i].hasSystem =>
                 voronoiSites'[i].systemId = voronoiSites[i].systemId
       /\ (pc = "fixed" /\ Len(systems') > Len(systems)) =>
             LET s == systems'[Len(systems')]
                 free == {j \in DOMAIN voronoiSites : ~voronoiSites[j].hasSystem}
             IN \E i \in free :
                   /\ voronoiSites'[i].systemId = s.id
                   /\ \A j \in free :
                         calculateDistance(Pos(s), Pos(voronoiSites[i]))
                            <= calculateDistance(Pos(s), Pos(voronoiSites[j]))]_vars

\* C21: in Voronoi mode, when there are at least as many sites as fixed
\* systems, generateSystemsFromVoronoi returns one system per site (as many
\* systems as sites, at most starSystemCount, each site bound to one system and
\* each system to one site), the fixed systems first, then the generated ones
\* with the ids system-1, system-2, ... in order.
C21_OneSystemPerSite ==
    (/\ cfg.useVoronoiConnectivity
     /\ pc \in {"redundant", "safetynet", "anomalies", "done"}
     /\ Len(cfg.fixedSystems) <= Len(voronoiSites)) =>
        /\ Len(systems) = Len(voronoiSites)
        /\ Len(voronoiSites) <= cfg.starSystemCount
        /\ \A i \in DOMAIN voronoiSites :
              /\ voronoiSites[i].hasSystem
              /\ Cardinality({n \in DOMAIN systems :
                                 systems[n].id = voronoiSites[i].systemId}) = 1
        /\ \A n \in DOMAIN systems :
              /\ Cardinality({i \in DOMAIN voronoiSites :
                                 voronoiSites[i].systemId = systems[n].id}) = 1
              /\ IF n <= Len(cfg.fixedSystems)
                 THEN systems[n].isFixed /\ systems[n].id = cfg.fixedSystems[n].id
                 ELSE /\ ~systems[n].isFixed
                      /\ systems[n].id = SystemIdTable[n - Len(cfg.fixedSystems)]

C21_Witness ==
    /\ cfg.useVoronoiConnectivity
    /\ pc = "done"
    /\ Len(cfg.fixedSystems) = 1
    /\ Len(systems) = 4
    /\ systems[4].id = "system-3"

NeighborsOf(i) == Range(voronoiSites[i].neighbors)
SiteDistance(i, j) == calculateDistance(Pos(voronoiSites[i]), Pos(voronoiSites[j]))
\* the other sites that are not farther from i than j is
NotFarther(i, j) ==
    {k \in DOMAIN voronoiSites \ {i, j} : SiteDistance(i, k) <= SiteDistance(i, j)}

\* C22: after computeVoronoiNeighbors no site lists itself or lists a site
\* twice, j is in the list of i iff i is in the list of j, and the list of a
\* site holds every other site that is among its min(6, n - 1) nearest and
\* within the distance cap (twice the radius).
C22_NeighborsSymmetric ==
    pc = "fixed" =>
        \A i \in DOMAIN voronoiSites :
            /\ i \notin NeighborsOf(i)
            /\ NeighborsOf(i) \subseteq DOMAIN voronoiSites
            /\ Cardinality(NeighborsOf(i)) = Len(voronoiSites[i].neighbors)
            /\ \A j \in DOMAIN voronoiSites : j \in NeighborsOf(i) <=> i \in NeighborsOf(j)
            /\ \A j \in DOMAIN voronoiSites \ {i} :
                  (/\ SiteDistance(i, j) <= 4 * cfg.radius * cfg.radius
                   /\ Cardinality(NotFarther(i, j)) < Min2(6, Len(voronoiSites) - 1))
                     => j \in NeighborsOf(i)

C22_Witness ==
    /\ pc = "fixed"
    /\ Len(voronoiSites) = 8
    /\ \E i, j \in DOMAIN voronoiSites :
          /\ j \in NeighborsOf(i)
          /\ Cardinality(NotFarther(i, j)) >= 6
          /\ Cardinality(NotFarther(j, i)) < 6
    /\ \E i \in DOMAIN voronoiSites : Len(voronoiSites[i].neighbors) = 6

\* the systems that carry the id the site is bound to
AtSite(i) == {n \in DOMAIN systems : systems[n].id = voronoiSites[i].systemId}
\* pairs of systems bound to two sites of which one lists the other
NeighbouringSystems ==
    {e \in (DOMAIN systems) \X (DOMAIN systems) :
        /\ e[1] # e[2]
        /\ \E i, j \in DOMAIN voronoiSites :
              j \in NeighborsOf(i) /\ e[1] \in AtSite(i) /\ e[2] \in AtSite(j)}
\* the lanes the loop over the sites of generateVoronoiWarpLanes makes
VoronoiLoopLanes ==
    VoronoiLanesFrom(Graph(systems, << >>, EmptyConnections(systems)), 1, 1).warpLanes
LaneIn(lanes, a, b) ==
    \E k \in DOMAIN lanes :
        {lanes[k].from, lanes[k].to} = {systems[a].id, systems[b].id}
\* class multiplier times 10: origin 2.5, core 2.0, rim 0.4
TierX10(s) == IF s.type = "origin" THEN 25 ELSE IF s.type = "core" THEN 20 ELSE 4
\* distance <= max(1.5 * maxDistance, 0.25 * radius) * multX10 / 10
WithinTier(a, b, multX10) ==
    LET baseX20 == Max2(30 * cfg.maxDistance, 5 * cfg.radius)
    IN SystemDistance(systems, a, b) * 200 * 200 <= (baseX20 * multX10) * (baseX20 * multX10)

\* C23: the loop of the Voronoi lane builder joins two systems bound to
\* neighbouring sites iff their distance is at most base * max(mult(A), mult(B)),
\* base = max(1.5 * maxDistance, 0.25 * radius), mult = 2.5 / 2.0 / 0.4 for
\* origin / core / rim; it joins no other pair, and its lanes are the first
\* lanes of the stage.
C23_TieredThreshold ==
    (cfg.useVoronoiConnectivity /\ pc = "redundant") =>
        /\ IsPrefix(VoronoiLoopLanes, warpLanes)
        /\ \A e \in NeighbouringSystems :
              LaneIn(VoronoiLoopLanes, e[1], e[2])
                 <=> WithinTier(e[1], e[2], Max2(TierX10(systems[e[1]]), TierX10(systems[e[2]])))
        /\ \A a, b \in DOMAIN systems :
              LaneIn(VoronoiLoopLanes, a, b) =>
                 /\ <<a, b>> \in NeighbouringSystems
                 /\ WithinTier(a, b, Max2(TierX10(systems[a]), TierX10(systems[b])))

C23_Witness ==
    /\ cfg.useVoronoiConnectivity
    /\ pc = "redundant"
    /\ \E e \in NeighbouringSystems :
          /\ systems[e[1]].type = "rim" /\ systems[e[2]].type = "core"
          /\ LaneIn(warpLanes, e[1], e[2])
          /\ ~WithinTier(e[1], e[2], 4)
    /\ \E e \in NeighbouringSystems :
          /\ systems[e[1]].type = "rim" /\ systems[e[2]].type = "rim"
          /\ ~LaneIn(warpLanes, e[1], e[2])
          /\ WithinTier(e[1], e[2], 20)

\* the neighbour candidates of system a in the lane builder: the systems at
\* neighbouring sites, or (traditional mode) the others within maxDistance
CandidatesOf(a) ==
    IF cfg.useVoronoiConnectivity
    THEN {b \in DOMAIN systems : <<a, b>> \in NeighbouringSystems}
    ELSE {b \in DOMAIN systems \ {a} :
             SystemDistance(systems, a, b) <= cfg.maxDistance * cfg.maxDistance}
\* a is joined to each system of T, and no candidate outside T is nearer to a
\* than a system of T
JoinedToClosest(a, T) ==
    /\ \A t \in T : Joined(systems[a].id, systems[t].id)
    /\ \A t \in T, u \in CandidatesOf(a) \ T :
          SystemDistance(systems, a, t) <= SystemDistance(systems, a, u)
ClosestGuaranteed(a) ==
    /\ CandidatesOf(a) # {} => \E t \in CandidatesOf(a) : JoinedToClosest(a, {t})
    /\ Cardinality(CandidatesOf(a)) >= 2 =>
          \E t, u \in CandidatesOf(a) : t # u /\ JoinedToClosest(a, {t, u})

\* C24: after the lane builder, in either mode, a system with a neighbour
\* candidate is joined to its closest candidate, and to its two closest when
\* it has two or more.
C24_ClosestGuaranteed ==
    pc = "redundant" => \A a \in DOMAIN systems : ClosestGuaranteed(a)

\* the acceptance tests Phase 1b makes for the system a when the draws are
\* targetConnections and low
LaneTests(a, targetConnections, low) ==
    LET g == Graph(systems, warpLanes, connections)
        cands == Candidates(systems, a)
    IN ProbabilisticFrom([g |-> GuaranteedFrom(g, a, cands, 0), decided |-> {},
                          tests |-> << >>],
                         a, cands, targetConnections, low, 1).tests
\* the tests the next system of the loop can make, over all draws
NextLaneTests ==
    UNION {Range(LaneTests(idx + 1, t, low)) :
              t \in 1..(cfg.maxConnections + 2),
              low \in [DOMAIN Candidates(systems, idx + 1) -> BOOLEAN]}

\* C25: in every acceptance test of Phase 1b of the traditional lane builder
\* the diversity bonus is above 1 iff the source or the candidate has fewer
\* than 2 lanes at that moment, and is 1 otherwise.
C25_DiversityBonus ==
    (pc = "tlanes" /\ idx < Len(systems)) =>
        \A t \in NextLaneTests :
            /\ t.bonusX10 > 10 <=> (t.source < 2 \/ t.candidate < 2)
            /\ t.bonusX10 = 10 <=> (t.source >= 2 /\ t.candidate >= 2)

C25_Witness ==
    /\ pc = "tlanes"
    /\ idx < Len(systems)
    /\ idx >= 1
    /\ \E t \in NextLaneTests : t.bonusX10 = 15 /\ t.candidate = 1 /\ t.source >= 2

\* the lanes addRedundantConnections was given, and the places of those it added
GivenLanes == SubSeq(warpLanes, 1, counters.lanesBeforeRedundant)
AddedLanes == (counters.lanesBeforeRedundant + 1)..Len(warpLanes)
\* degree <= 2, or farther than 60% of the radius from the centroid with degree < 4
VulnerableOnEntry(v) ==
    LET degree == LanesAt(GivenLanes, systems[v].id)
    IN degree <= 2 \/ (FarFromCenter(systems, v) /\ degree < 4)
\* the lanes present when the turn of v comes: those given and those added
\* from the systems stored before v
LanesAtTurn(v) ==
    SelectSeq(warpLanes,
              LAMBDA l : \/ Contains(GivenLanes, l)
                         \/ SystemToIndex(systems, l.from) < v)
\* targets not yet connected to v at its turn and nearer than 40% of the radius
EligibleTargets(v) ==
    {u \in DOMAIN systems \ {v} :
        /\ \A k \in DOMAIN LanesAtTurn(v) :
              {LanesAtTurn(v)[k].from, LanesAtTurn(v)[k].to} # {systems[v].id, systems[u].id}
        /\ 100 * SystemDistance(systems, v, u) < 16 * cfg.radius * cfg.radius}
AddedFrom(v) == {k \in AddedLanes : warpLanes[k].from = systems[v].id}
AddedBefore(v) == {k \in AddedLanes : SystemToIndex(systems, warpLanes[k].from) < v}
LanesWanted(v) == IF LanesAt(LanesAtTurn(v), systems[v].id) = 1 THEN 2 ELSE 1

\* C26: addRedundantConnections adds lanes only from vulnerable systems, each
\* shorter than 40% of the radius; a vulnerable system of degree 1 gets 2 new
\* lanes and one of degree >= 2 gets 1, whenever it has that many targets not
\* yet connected to it within the distance cap and the total cap leaves room.
C26_VulnerableGetLanes ==
    pc = "safetynet" =>
        /\ \A k \in AddedLanes :
              /\ VulnerableOnEntry(SystemToIndex(systems, warpLanes[k].from))
              /\ 100 * warpLanes[k].distance < 16 * cfg.radius * cfg.radius
        /\ \A v \in DOMAIN systems :
              (/\ Len(systems) >= 3
               /\ VulnerableOnEntry(v)
               /\ LanesAt(LanesAtTurn(v), systems[v].id) >= 1
               /\ Cardinality(EligibleTargets(v)) >= LanesWanted(v)
               /\ Cardinality(AddedBefore(v)) + LanesWanted(v) <= Min2(Len(systems) \div 4, 40))
                 => Cardinality(AddedFrom(v)) = LanesWanted(v)

\* the last position sampled for slot k, and the attempts the slot made
SlotPosition(k) == generateRandomPositionInCircle(stream[k][1][1], stream[k][1][2])
SlotAttempts(k) == stream[k][2]
\* at least 2.5 from every site that isValidVoronoiPosition compares with
FarFromSites(pos) ==
    \A n \in DOMAIN voronoiSites : 4 * calculateDistance(pos, Pos(voronoiSites[n])) >= 25
\* the slots, in order, whose sampling ended on a valid candidate
SlotsWithCandidate ==
    SelectSeq([k \in DOMAIN stream |-> k], LAMBDA k : FarFromSites(SlotPosition(k)))

\* C27: a slot of generateVoronoiSites makes at most 500 attempts and yields a
\* site iff one of them, the 500th included, gives a valid candidate, the
\* first valid candidate being the site; the sites number at most the slots.
C27_SlotYieldsSite ==
    pc = "sites" =>
        /\ \A k \in DOMAIN stream : SlotAttempts(k) <= 500
        /\ Len(sites) <= cfg.starSystemCount
        /\ Len(sites) = Len(SlotsWithCandidate)
        /\ \A n \in 1..Min2(Len(sites), Len(SlotsWithCandidate)) :
              Pos(sites[n]) = SlotPosition(SlotsWithCandidate[n])

\* the systems that carry the id
SystemsWithId(id) == {n \in DOMAIN systems : systems[n].id = id}

WithLanes(g, E) == LanesFrom(g, SortSet(E, PairLess), 1)

\* C29: ensureMinimumConnectivity applied again to its own result, with or
\* without lanes added in between, appends no lane and changes no adjacency;
\* so the final call in generateGalaxy, which follows the call that ends the
\* lane builder, adds nothing.
C29_SafetyNetIdle ==
    pc = "minconnected" =>
        \A E \in SUBSET RepairPairs(systems) :
            LET g == WithLanes(Graph(systems, warpLanes, connections), E)
            IN ensureMinimumConnectivity(g) = g

C29_Witness ==
    /\ pc = "minconnected"
    /\ Len(systems) = 4
    /\ Len(warpLanes) - Len(prev.warpLanes) = 2
    /\ \E a \in DOMAIN systems : LanesAt(warpLanes, systems[a].id) = 1

\* the lanes ensureNetworkConnectivity is given in generateWarpLanes: those
\* Phase 2 returns
LanesBeforeBridging ==
    ensureMinimumConnectivity(Graph(systems, warpLanes, connections)).warpLanes

\* C30: every createWarpLane call of the bridging pass and of the resilience
\* pass appends a lane: the step that runs ensureNetworkConnectivity lengthens
\* the lanes by bridgesAdded, and the step that runs addRedundantConnections
\* by redundantConnectionsAdded.
C30_CountersMatchLanes ==
    [][/\ (pc = "tlanes" /\ pc' = "redundant") =>
             /\ IsPrefix(LanesBeforeBridging, warpLanes')
             /\ counters'.bridgesAdded = Len(warpLanes') - Len(LanesBeforeBridging)
       /\ (pc = "redundant" /\ pc' = "safetynet") =>
             /\ counters'.lanesBeforeRedundant = Len(warpLanes)
             /\ counters'.redundantConnectionsAdded = Len(warpLanes') - Len(warpLanes)]_vars

C30_Witness ==
    /\ ~cfg.useVoronoiConnectivity
    /\ pc = "safetynet"
    /\ counters.redundantConnectionsAdded = 1
    /\ Len(warpLanes) = counters.lanesBeforeRedundant + 1
    /\ Len(warpLanes) >= 4

====
